---------------------------- MODULE Spec2Model ----------------------------
(***************************************************************************)
(* The source-location classifier and type-policy engine of the Chromium   *)
(* style plugin (clang/plugins/ChromeClassTester.cpp).                      *)
(*                                                                         *)
(* File names, markers and type names are strings; they are searched and   *)
(* compared character by character with Len, SubSeq and \o, as the C++     *)
(* std::string operations do.                                              *)
(***************************************************************************)
EXTENDS Integers, Sequences, FiniteSets, TLC

VARIABLES
    platform,               \* which of LLVM_ON_UNIX / LLVM_ON_WIN32 the build defines
    ndebug,                 \* TRUE when the build defines NDEBUG (assert compiled out)
    options_,               \* chrome_checker::Options, copied by the constructor
    banned_directories_,    \* the three policy sets filled by BuildBannedLists
    ignored_record_names_,
    ignored_base_classes_,
    assert_sites,           \* the functions in which a banned-dir assert has been evaluated
    call,                   \* the last call made on the engine: arguments and outcome
    \* The replay process (ipc_fuzzer/message_replay/replay_process.cc):
    message_index_,         \* ReplayProcess::message_index_
    messages_,              \* ReplayProcess::messages_, a slot being a message or NULL
    testcase,               \* the messages MessageFile::Read stored, as it stored them
    sent,                   \* the calls of channel_->Send so far: [message, ok]
    quit_when_idle,         \* QuitWhenIdle() has been called on the message loop
    pc,                     \* where the replay process is in its life
    handler                 \* the task the message loop ran last

vars == <<platform, ndebug, options_, banned_directories_,
          ignored_record_names_, ignored_base_classes_, assert_sites, call,
          message_index_, messages_, testcase, sent, quit_when_idle, pc, handler>>

replay == <<message_index_, messages_, testcase, sent, quit_when_idle, pc, handler>>

policy == <<banned_directories_, ignored_record_names_, ignored_base_classes_>>
build == <<platform, ndebug, options_>>

-----------------------------------------------------------------------------
(* Bounds of the explored inputs.                                          *)

MaxDirs == 3        \* directory segments in a path handed to ClassifyLocation
MaxTagDirs == 1     \* directory segments in the path of a declaration handed to CheckTag
MaxClasses == 3     \* classes in a base-class graph
MaxChain == 3       \* positions on a macro-expansion chain, the use site included
MaxCtx == 3         \* declaration contexts between a declaration and the translation unit
MaxMessages == 2    \* messages in a testcase file

-----------------------------------------------------------------------------
(* std::string helpers.                                                    *)

\* std::string::find(needle) != npos
Contains(s, needle) ==
    \E i \in 1..(Len(s) - Len(needle) + 1) :
        SubSeq(s, i, i + Len(needle) - 1) = needle

\* std::string::front() / back() of a non-empty string.
Front(s) == SubSeq(s, 1, 1)
Back(s) == SubSeq(s, Len(s), Len(s))

ends_with(one, two) ==
    IF Len(two) > Len(one) THEN FALSE
    ELSE SubSeq(one, Len(one) - Len(two) + 1, Len(one)) = two

\* std::replace(begin, end, from, to): every character equal to from becomes to.
RECURSIVE Replace(_, _, _)
Replace(s, from, to) ==
    IF Len(s) = 0 THEN s
    ELSE (IF Front(s) = from THEN to ELSE Front(s))
         \o Replace(SubSeq(s, 2, Len(s)), from, to)

-----------------------------------------------------------------------------
(* The policy lists.                                                       *)

BannedDirectories ==
    { "/third_party/", "/native_client/", "/breakpad/", "/courgette/",
      "/ppapi/", "/testing/", "/v8/", "/sdch/", "/frameworks/",
      "/gen/", "/geni/", "/xcodebuild/" }

IgnoredRecordNames ==
    { "ThreadLocalBoolean", "Header", "Validators", "AutocompleteController",
      "HistoryURLProvider", "MockTransaction", "ServerFieldType",
      "TestAnimationDelegate", "PluginVersionInfo", "QuadF", "ViewID" }

IgnoredBaseClasses == { "IPC::NoParams" }

\* BuildBannedLists with the leading separator of "/gen/" left out.
BuildBannedLists_BareGen ==
    [ banned_directories_ |-> (BannedDirectories \ {"/gen/"}) \cup {"gen/"},
      ignored_record_names_ |-> IgnoredRecordNames,
      ignored_base_classes_ |-> IgnoredBaseClasses ]

BuildBannedLists ==
    [ banned_directories_ |-> BannedDirectories,
      ignored_record_names_ |-> IgnoredRecordNames,
      ignored_base_classes_ |-> IgnoredBaseClasses ]


-----------------------------------------------------------------------------
(* The host's position table: what the SourceManager reports for a          *)
(* SourceLocation.  A location is [sys, valid, file]: isInSystemHeader,     *)
(* whether the presumed location of its spelling location is valid, and     *)
(* that presumed location's filename.                                       *)

kScratchSpace == "<scratch space>"

DirSegs ==
    { "third_party/WebKit", "third_party/blink", "browser",
      "third_party", "gen", "general" }

DirSeqs(max) == UNION { [1..n -> DirSegs] : n \in 0..max }

RECURSIVE JoinDirs(_)
JoinDirs(dirs) ==
    IF Len(dirs) = 0 THEN ""
    ELSE Head(dirs) \o "/" \o JoinDirs(Tail(dirs))

\* Relative and absolute forward-slash paths of a header Foo.h.
SlashPaths(max) ==
    { lead \o JoinDirs(d) \o "Foo.h" : lead \in {"", "/"}, d \in DirSeqs(max) }

\* The same paths as a Windows front end may spell them.
BackslashPaths(max) == { Replace(p, "/", "\\") : p \in SlashPaths(max) }

RawFilenames(plat, max) ==
    SlashPaths(max) \cup {kScratchSpace}
        \cup (IF plat = "win32" THEN BackslashPaths(max) ELSE {})

Locations(plat, max) ==
    [sys : BOOLEAN, valid : {TRUE}, file : RawFilenames(plat, max)]
        \cup [sys : BOOLEAN, valid : {FALSE}, file : {""}]

(* The file system as the path calls see it: the call fails, or the path    *)
(* is made absolute against the working directory, or (realpath only) it    *)
(* goes through a symbolic link to another tree.                            *)
Cwd == "/src"
WinCwd == "C:\\src"
SymlinkTarget == "/mnt/third_party/blink/renderer/Foo.h"
NUL == "@"      \* stands for the terminating zero byte, which a TLA+ string cannot hold

FsOutcomes(plat) ==
    IF plat = "unix" THEN {"fail", "plain", "symlink"} ELSE {"fail", "plain"}

\* realpath(3): [ok, path]
realpath(filename, fs) ==
    CASE fs = "fail" -> [ok |-> FALSE, path |-> ""]
      [] fs = "symlink" -> [ok |-> TRUE, path |-> SymlinkTarget]
      [] OTHER ->
            [ok |-> TRUE,
             path |-> IF Front(filename) = "/" THEN filename
                      ELSE Cwd \o "/" \o filename]

\* GetFullPathNameW: the number of characters written is 0 on failure.
GetFullPathNameW(filename, fs) ==
    LET native == Replace(filename, "/", "\\")
    IN  CASE fs = "fail" -> [ok |-> FALSE, path |-> ""]
          [] OTHER ->
                [ok |-> TRUE,
                 path |-> IF Front(native) = "\\" THEN "C:" \o native
                          ELSE WinCwd \o "\\" \o native]

-----------------------------------------------------------------------------
(* GetFilename and ClassifyLocation.                                        *)

kChrome == "kChrome"
kBlink == "kBlink"
kThirdParty == "kThirdParty"
kAbort == "abort"     \* a failed assert ends the process

GetFilename(loc) ==
    IF ~loc.valid THEN [ok |-> FALSE, filename |-> ""]
    ELSE [ok |-> TRUE, filename |-> loc.file]

\* The Unix block with a failed realpath clearing filename.
NormalizeFilename_ClearOnFail(filename, fs) ==
    IF options_.no_realpath
    THEN [filename |-> "/" \o filename, resolve |-> "skipped"]
    ELSE LET r == realpath(filename, fs)
         IN  IF r.ok THEN [filename |-> r.path, resolve |-> "resolved"]
             ELSE [filename |-> "", resolve |-> "failed"]

\* Lines 98-136: the value of the local filename after the platform block,
\* with what became of the path call.
NormalizeFilename(filename, fs) ==
    IF platform = "unix" THEN
        IF options_.no_realpath
        THEN [filename |-> "/" \o filename, resolve |-> "skipped"]
        ELSE LET r == realpath(filename, fs)
             IN  IF r.ok THEN [filename |-> r.path, resolve |-> "resolved"]
                 ELSE [filename |-> filename, resolve |-> "failed"]
    ELSE
        LET made ==
                IF options_.no_realpath
                THEN [filename |-> "/" \o filename, resolve |-> "skipped"]
                ELSE LET r == GetFullPathNameW(filename, fs)
                     IN  IF r.ok
                         THEN [filename |-> r.path \o NUL, resolve |-> "resolved"]
                         ELSE [filename |-> NUL, resolve |-> "failed"]
        IN  [made EXCEPT !.filename = Replace(made.filename, "\\", "/")]

\* The Blink test without the "/third_party/blink/browser/" exception.
IsBlinkPath_NoBrowserException(filename) ==
    \/ Contains(filename, "/third_party/WebKit/")
    \/ Contains(filename, "/third_party/blink/")

\* Lines 140-143.
IsBlinkPath(filename) ==
    \/ Contains(filename, "/third_party/WebKit/")
    \/ /\ Contains(filename, "/third_party/blink/")
       /\ ~Contains(filename, "/third_party/blink/browser/")

WellFormedMarker(banned_dir) ==
    Front(banned_dir) = "/" /\ Back(banned_dir) = "/"

\* The loop leaving after its first marker, "/third_party/".
BannedDirLoop_FirstOnly(filename) ==
    { [ret |-> IF Contains(filename, "/third_party/") THEN kThirdParty ELSE kChrome,
       asserted |-> ~ndebug /\ banned_directories_ # {}] }

(* Lines 147-157: the outcomes of the loop over banned_directories_.  The   *)
(* loop visits the markers in the container's order and stops at the first  *)
(* marker found in filename; each visit first asserts the marker's shape.   *)
(* The outcomes below are those of every visiting order.                    *)
BannedDirLoop(filename) ==
    LET bad == { d \in banned_directories_ : ~WellFormedMarker(d) }
        hits == { d \in banned_directories_ : Contains(filename, d) }
        asserted == ~ndebug /\ banned_directories_ # {}
    IN  IF ndebug \/ bad = {}
        THEN { [ret |-> IF hits # {} THEN kThirdParty ELSE kChrome,
                asserted |-> asserted] }
        ELSE { [ret |-> kAbort, asserted |-> TRUE] }
                \cup { [ret |-> kThirdParty, asserted |-> TRUE] :
                           d \in hits \ bad }

\* ClassifyLocation with the isInSystemHeader test made after the Blink test.
ClassifyLocation_SystemHeaderAfterBlink(loc, fs) ==
    LET got == GetFilename(loc)
        norm == NormalizeFilename(got.filename, fs)
        early(f) == { [ret |-> kThirdParty, filename |-> f,
                       resolve |-> "not reached", asserted |-> FALSE] }
    IN  IF ~got.ok THEN early(got.filename)
        ELSE IF got.filename = kScratchSpace THEN early(got.filename)
        ELSE IF IsBlinkPath(norm.filename)
        THEN { [ret |-> kBlink, filename |-> norm.filename,
                resolve |-> norm.resolve, asserted |-> FALSE] }
        ELSE IF loc.sys THEN early("")
        ELSE { [ret |-> o.ret, filename |-> norm.filename,
                resolve |-> norm.resolve, asserted |-> o.asserted] :
                   o \in BannedDirLoop(norm.filename) }

(* ClassifyLocation(loc) with the file system answering fs: the set of      *)
(* [ret, filename, resolve, asserted], filename being the local variable's  *)
(* value at the return.                                                     *)
ClassifyLocation(loc, fs) ==
    LET got == GetFilename(loc)
        norm == NormalizeFilename(got.filename, fs)
        early(f) == { [ret |-> kThirdParty, filename |-> f,
                       resolve |-> "not reached", asserted |-> FALSE] }
    IN  IF loc.sys THEN early("")
        ELSE IF ~got.ok THEN early(got.filename)
        ELSE IF got.filename = kScratchSpace THEN early(got.filename)
        ELSE IF IsBlinkPath(norm.filename)
        THEN { [ret |-> kBlink, filename |-> norm.filename,
                resolve |-> norm.resolve, asserted |-> FALSE] }
        ELSE { [ret |-> o.ret, filename |-> norm.filename,
                resolve |-> norm.resolve, asserted |-> o.asserted] :
                   o \in BannedDirLoop(norm.filename) }

-----------------------------------------------------------------------------
(* The engine as a state machine.                                           *)

Init ==
    /\ platform \in {"unix", "win32"}
    /\ ndebug \in BOOLEAN
    /\ options_ \in [no_realpath : BOOLEAN]
    /\ banned_directories_ = BuildBannedLists.banned_directories_
    /\ ignored_record_names_ = BuildBannedLists.ignored_record_names_
    /\ ignored_base_classes_ = BuildBannedLists.ignored_base_classes_
    /\ assert_sites = {}
    /\ call = [op |-> "none"]
    /\ message_index_ = 0
    /\ messages_ = <<>>
    /\ testcase = <<>>
    /\ sent = <<>>
    /\ quit_when_idle = FALSE
    /\ pc = "constructed"
    /\ handler = "none"

(* The engine is called synchronously, one call at a time, by the host's    *)
(* tree traversal: a call is made when none is outstanding, and call then   *)
(* holds its arguments and outcome until the host moves on.  A failed       *)
(* assert ends the process: the host never moves on from it.                *)
Idle == call.op = "none"

HostContinues ==
    /\ ~Idle
    /\ ~(call.op \in {"ClassifyLocation", "CheckTag"} /\ call.ret = kAbort)
    /\ call' = [op |-> "none"]
    /\ UNCHANGED <<build, policy, assert_sites, replay>>

ClassifyLocationCall ==
    /\ Idle
    /\ \E loc \in Locations(platform, MaxDirs), fs \in FsOutcomes(platform) :
         \E out \in ClassifyLocation(loc, fs) :
            /\ call' = [op |-> "ClassifyLocation", loc |-> loc,
                        ret |-> out.ret, filename |-> out.filename,
                        resolve |-> out.resolve, asserted |-> out.asserted]
            /\ assert_sites' = assert_sites \cup
                   (IF out.asserted THEN {"ClassifyLocation"} ELSE {})
    /\ UNCHANGED <<build, policy, replay>>

NextClassify == ClassifyLocationCall \/ HostContinues

SpecClassify == Init /\ [][NextClassify]_vars

-----------------------------------------------------------------------------
(* Claims about ClassifyLocation, checked under SpecClassify.               *)

\* A ClassifyLocation call that went past the three early exits; call.filename
\* is then the normalized path the markers are searched in.
PastEarlyExits ==
    /\ call.op = "ClassifyLocation"
    /\ ~call.loc.sys
    /\ call.loc.valid
    /\ call.loc.file # kScratchSpace

HasEngineMarker(p) ==
    Contains(p, "/third_party/WebKit/") \/ Contains(p, "/third_party/blink/")

HasBrowserMarker(p) == Contains(p, "/third_party/blink/browser/")

HasBannedMarker(p) ==
    \E d \in BannedDirectories : Contains(p, d)

C2_Original ==
    (PastEarlyExits /\ HasBannedMarker(call.filename))
        => call.ret = kThirdParty

(* C2 as amended: past the early exits, a path that contains a banned-      *)
(* directory marker and that the Blink rule does not claim (no              *)
(* "/third_party/WebKit/", and no "/third_party/blink/" unless under        *)
(* "/third_party/blink/browser/") is classified ThirdParty.                 *)
C2_BannedRule ==
    (/\ PastEarlyExits
     /\ HasBannedMarker(call.filename)
     /\ ~Contains(call.filename, "/third_party/WebKit/")
     /\ (Contains(call.filename, "/third_party/blink/")
            => HasBrowserMarker(call.filename)))
        => call.ret = kThirdParty

C2_Witness ==
    /\ PastEarlyExits
    /\ Contains(call.filename, "/gen/")
    /\ ~Contains(call.filename, "/third_party/")
    /\ call.ret = kThirdParty

(* C3: a position in system-header space, one whose presumed filename does  *)
(* not resolve, and one whose filename is "<scratch space>" are classified  *)
(* ThirdParty, with no path call made, no marker assert evaluated and the   *)
(* filename left as GetFilename gave it.                                    *)
C3_EarlyExits ==
    (/\ call.op = "ClassifyLocation"
     /\ (call.loc.sys \/ ~call.loc.valid \/ call.loc.file = kScratchSpace))
        => /\ call.ret = kThirdParty
           /\ call.resolve = "not reached"
           /\ ~call.asserted
           /\ call.filename \in {"", call.loc.file}

C3_Witness ==
    /\ call.op = "ClassifyLocation"
    /\ call.loc.sys
    /\ call.loc.valid
    /\ Contains("/" \o call.loc.file, "/third_party/WebKit/")
    /\ ~options_.no_realpath
    /\ call.ret = kThirdParty

(* C4 as stated: with real-path resolution enabled and failing, the         *)
(* classification is ThirdParty.                                            *)
C4_Original ==
    (call.op = "ClassifyLocation" /\ call.resolve = "failed")
        => call.ret = kThirdParty

(* C4 as amended: with real-path resolution enabled and failing, no error   *)
(* is raised and the result is one of the three location types; on a Unix   *)
(* build the filename is kept as it was and classified by the marker rules  *)
(* (Blink, else ThirdParty on a banned marker, else Chrome); on a Windows   *)
(* build no marker is left to match and the result is Chrome.               *)
C4_ResolveFails ==
    (call.op = "ClassifyLocation" /\ call.resolve = "failed")
        => /\ ~options_.no_realpath
           /\ call.ret \in {kChrome, kBlink, kThirdParty}
           /\ platform = "unix" =>
                /\ call.filename = call.loc.file
                /\ call.ret =
                     IF \/ Contains(call.loc.file, "/third_party/WebKit/")
                        \/ /\ Contains(call.loc.file, "/third_party/blink/")
                           /\ ~HasBrowserMarker(call.loc.file)
                     THEN kBlink
                     ELSE IF HasBannedMarker(call.loc.file) THEN kThirdParty
                     ELSE kChrome
           /\ platform = "win32" => call.ret = kChrome

C4_Witness ==
    /\ call.op = "ClassifyLocation"
    /\ call.resolve = "failed"
    /\ platform = "unix"
    /\ call.ret = kChrome

(* C10 as stated: the shape of the banned-directory markers is asserted     *)
(* when the policy is built, so that by the time of a ClassifyLocation call *)
(* the assertion has been made at construction and the call makes none.     *)
C10_Original ==
    call.op = "ClassifyLocation"
        => ("BuildBannedLists" \in assert_sites /\ ~call.asserted)

(* C10 as amended: every marker BuildBannedLists stores begins and ends     *)
(* with "/", so no ClassifyLocation call runs with a malformed marker and   *)
(* none fails an assert; the construction asserts nothing, and the shape is *)
(* asserted inside ClassifyLocation, in builds without NDEBUG, by exactly   *)
(* the calls that reach the banned-directory loop.                          *)
C10_MarkerShape ==
    /\ \A d \in banned_directories_ :
          Len(d) >= 2 /\ SubSeq(d, 1, 1) = "/" /\ SubSeq(d, Len(d), Len(d)) = "/"
    /\ "BuildBannedLists" \notin assert_sites
    /\ call.op = "ClassifyLocation" =>
          /\ call.ret # kAbort
          /\ call.asserted <=>
                (~ndebug /\ PastEarlyExits /\ call.ret # kBlink)
          /\ call.asserted => "ClassifyLocation" \in assert_sites

C10_Witness ==
    /\ call.op = "ClassifyLocation"
    /\ call.asserted
    /\ call.ret = kChrome

-----------------------------------------------------------------------------
(* CheckTag.  A TagDecl is [kind, name, loc]: the dynamic class of the      *)
(* declaration (a CXXRecordDecl, an EnumDecl, or a plain RecordDecl, which  *)
(* is neither), getNameAsString() and getInnerLocStart().                   *)

TagKinds == {"CXXRecordDecl", "EnumDecl", "RecordDecl"}

TagNames == {"Header", "ViewID", "Foo", "FooMatcher", "Matcher", "atcher"}

TagDecls(plat) ==
    [kind : TagKinds, name : TagNames, loc : Locations(plat, MaxTagDirs)]

IsIgnoredType(base_name) == base_name \in ignored_record_names_

\* An invocation of one of the two subclass-supplied checks.
Invocation(check, location_type, location, decl) ==
    [check |-> check, location_type |-> location_type,
     location |-> location, decl |-> decl]

\* CheckTag applying the "Matcher" suffix test to enums as well.
CheckTagBody_MatcherForEnumsToo(tag, location_type) ==
    IF location_type = kThirdParty \/ IsIgnoredType(tag.name)
          \/ ends_with(tag.name, "Matcher")
    THEN <<>>
    ELSE IF tag.kind = "CXXRecordDecl"
    THEN << Invocation("CheckChromeClass", location_type, tag.loc, tag) >>
    ELSE IF tag.kind = "EnumDecl"
    THEN << Invocation("CheckChromeEnum", location_type, tag.loc, tag) >>
    ELSE <<>>

\* CheckTag handing kChrome to the checks whatever ClassifyLocation returned.
CheckTagBody_AlwaysChromeRules(tag, location_type) ==
    IF location_type = kThirdParty THEN <<>>
    ELSE IF tag.kind = "CXXRecordDecl" THEN
        IF IsIgnoredType(tag.name) \/ ends_with(tag.name, "Matcher") THEN <<>>
        ELSE << Invocation("CheckChromeClass", kChrome, tag.loc, tag) >>
    ELSE IF tag.kind = "EnumDecl" THEN
        IF IsIgnoredType(tag.name) THEN <<>>
        ELSE << Invocation("CheckChromeEnum", kChrome, tag.loc, tag) >>
    ELSE <<>>

\* Lines 53-77: the external checks CheckTag invokes, in order, once
\* ClassifyLocation has returned location_type.
CheckTagBody(tag, location_type) ==
    IF location_type = kThirdParty THEN <<>>
    ELSE IF tag.kind = "CXXRecordDecl" THEN
        IF IsIgnoredType(tag.name) THEN <<>>
        ELSE IF ends_with(tag.name, "Matcher") THEN <<>>
        ELSE << Invocation("CheckChromeClass", location_type, tag.loc, tag) >>
    ELSE IF tag.kind = "EnumDecl" THEN
        IF IsIgnoredType(tag.name) THEN <<>>
        ELSE << Invocation("CheckChromeEnum", location_type, tag.loc, tag) >>
    ELSE <<>>

\* CheckTag(tag): the set of [location_type, ret, checks, asserted].
CheckTag(tag, fs) ==
    { IF c.ret = kAbort
      THEN [location_type |-> c.ret, ret |-> kAbort, checks |-> <<>>,
            asserted |-> c.asserted]
      ELSE [location_type |-> c.ret, ret |-> "void",
            checks |-> CheckTagBody(tag, c.ret), asserted |-> c.asserted] :
        c \in ClassifyLocation(tag.loc, fs) }

CheckTagCall ==
    /\ Idle
    /\ \E tag \in TagDecls(platform), fs \in FsOutcomes(platform) :
         \E out \in CheckTag(tag, fs) :
            /\ call' = [op |-> "CheckTag", tag |-> tag,
                        location_type |-> out.location_type,
                        ret |-> out.ret, checks |-> out.checks]
            /\ assert_sites' = assert_sites \cup
                   (IF out.asserted THEN {"ClassifyLocation"} ELSE {})
    /\ UNCHANGED <<build, policy, replay>>

NextTag == CheckTagCall \/ HostContinues

SpecTag == Init /\ [][NextTag]_vars

-----------------------------------------------------------------------------
(* Claims about CheckTag, checked under SpecTag.                            *)

NameEndsInMatcher(name) ==
    Len(name) >= 7 /\ SubSeq(name, Len(name) - 6, Len(name)) = "Matcher"

(* C5: CheckTag invokes nothing when the location is ThirdParty or the      *)
(* name is an ignored type name; otherwise a class whose name does not end  *)
(* in "Matcher" gets exactly one CheckChromeClass and an enum exactly one   *)
(* CheckChromeEnum, with the location type ClassifyLocation returned and    *)
(* the same position and declaration; any other kind gets nothing.          *)
C5_Dispatch ==
    call.op = "CheckTag" =>
        LET tag == call.tag
            skip == \/ call.location_type = kThirdParty
                    \/ tag.name \in IgnoredRecordNames
            one(check) == << [check |-> check,
                              location_type |-> call.location_type,
                              location |-> tag.loc, decl |-> tag] >>
        IN  /\ skip => call.checks = <<>>
            /\ (~skip /\ tag.kind = "CXXRecordDecl" /\ ~NameEndsInMatcher(tag.name))
                   => call.checks = one("CheckChromeClass")
            /\ (~skip /\ tag.kind = "EnumDecl")
                   => call.checks = one("CheckChromeEnum")
            /\ tag.kind \notin {"CXXRecordDecl", "EnumDecl"}
                   => call.checks = <<>>

C5_Witness ==
    /\ call.op = "CheckTag"
    /\ call.tag.kind = "EnumDecl"
    /\ call.tag.name = "FooMatcher"
    /\ call.location_type = kBlink
    /\ Len(call.checks) = 1
    /\ call.checks[1].check = "CheckChromeEnum"
    /\ call.checks[1].location_type = kBlink

(* C6 as stated: a class or enum whose name ends in "Matcher", at a Chrome- *)
(* zone position, gets no external check.                                   *)
C6_Original ==
    (/\ call.op = "CheckTag"
     /\ call.tag.kind \in {"CXXRecordDecl", "EnumDecl"}
     /\ NameEndsInMatcher(call.tag.name)
     /\ call.location_type = kChrome)
        => call.checks = <<>>

(* C6 as amended: a class whose name ends in "Matcher", at a Chrome-zone    *)
(* position, gets no external check, whether or not the name is ignored;    *)
(* an enum with such a name gets CheckChromeEnum unless its name is an      *)
(* ignored type name.                                                       *)
C6_MatcherSuffix ==
    (/\ call.op = "CheckTag"
     /\ NameEndsInMatcher(call.tag.name)
     /\ call.location_type = kChrome)
        => /\ call.tag.kind = "CXXRecordDecl" => call.checks = <<>>
           /\ (call.tag.kind = "EnumDecl"
                  /\ call.tag.name \notin IgnoredRecordNames)
                 => /\ Len(call.checks) = 1
                    /\ call.checks[1].check = "CheckChromeEnum"

C6_Witness ==
    /\ call.op = "CheckTag"
    /\ call.tag.kind = "CXXRecordDecl"
    /\ call.tag.name = "FooMatcher"
    /\ call.location_type = kChrome
    /\ call.checks = <<>>

-----------------------------------------------------------------------------
(* HasIgnoredBases.  A base-class graph is [bases, qname] over the classes  *)
(* 1..MaxClasses: bases[c] is the list record->bases() of c, each entry     *)
(* what getAsCXXRecordDecl() gives for the base type (a class, or NoRecord  *)
(* when the type resolves to no class declaration), and qname[c] is         *)
(* getQualifiedNameAsString().  A class derives only from classes of a      *)
(* higher number, which makes the graph acyclic.                            *)

NoRecord == 0

Classes == 1..MaxClasses

QualifiedNames == {"IPC::NoParams", "other::NoParams"}

\* The elements of a set of numbers, in increasing order.
RECURSIVE Ascending(_)
Ascending(S) ==
    IF S = {} THEN <<>>
    ELSE LET m == CHOOSE x \in S : \A y \in S : x <= y
         IN  <<m>> \o Ascending(S \ {m})

BaseLists(c) == { Ascending(S) : S \in SUBSET ({NoRecord} \cup (c + 1)..MaxClasses) }

\* The base lists of the classes c..MaxClasses, one list per class.
RECURSIVE BaseListsFrom(_)
BaseListsFrom(c) ==
    IF c > MaxClasses THEN { <<>> }
    ELSE { <<first>> \o rest : first \in BaseLists(c), rest \in BaseListsFrom(c + 1) }

BaseGraphs ==
    { [bases |-> b, qname |-> q] :
        b \in BaseListsFrom(1), q \in [Classes -> QualifiedNames] }

\* HasIgnoredBases without the recursive call of line 173.
RECURSIVE HasIgnoredBasesIn_DirectOnly(_, _)
HasIgnoredBasesIn_DirectOnly(g, bases) ==
    IF bases = <<>> THEN FALSE
    ELSE LET base_record == Head(bases)
         IN  IF base_record = NoRecord
             THEN HasIgnoredBasesIn_DirectOnly(g, Tail(bases))
             ELSE IF g.qname[base_record] \in ignored_base_classes_ THEN TRUE
             ELSE HasIgnoredBasesIn_DirectOnly(g, Tail(bases))

\* Lines 165-176: the loop over the rest of a base list, with its recursion.
RECURSIVE HasIgnoredBasesIn(_, _)
HasIgnoredBasesIn(g, bases) ==
    IF bases = <<>> THEN FALSE
    ELSE LET base_record == Head(bases)
         IN  IF base_record = NoRecord
             THEN HasIgnoredBasesIn(g, Tail(bases))
             ELSE IF g.qname[base_record] \in ignored_base_classes_ THEN TRUE
             ELSE IF HasIgnoredBasesIn(g, g.bases[base_record]) THEN TRUE
             ELSE HasIgnoredBasesIn(g, Tail(bases))

HasIgnoredBases(g, record) == HasIgnoredBasesIn(g, g.bases[record])

\* The call is made on class 1, from which every other class may be reached.
Derived == 1

HasIgnoredBasesCall ==
    /\ Idle
    /\ \E g \in BaseGraphs, record \in {Derived} :
          call' = [op |-> "HasIgnoredBases", graph |-> g, record |-> record,
                   ret |-> HasIgnoredBases(g, record)]
    /\ UNCHANGED <<build, policy, assert_sites, replay>>

NextBases == HasIgnoredBasesCall \/ HostContinues

SpecBases == Init /\ [][NextBases]_vars

\* The classes reachable from the classes of S by zero or more base edges.
RECURSIVE BaseClosure(_, _)
BaseClosure(g, S) ==
    LET T == S \cup { b \in Classes :
                        \E c \in S : \E i \in DOMAIN g.bases[c] : g.bases[c][i] = b }
    IN  IF T = S THEN S ELSE BaseClosure(g, T)

\* The classes reachable from c by one or more base edges.
Ancestors(g, c) ==
    BaseClosure(g, { b \in Classes : \E i \in DOMAIN g.bases[c] : g.bases[c][i] = b })

(* C7: HasIgnoredBases(c) returns a result, which is true exactly when      *)
(* some class reachable from c by one or more resolving base edges has its  *)
(* qualified name in the ignored-base-class set; c's own name does not      *)
(* count and unresolved bases are skipped.                                  *)
C7_TransitiveBases ==
    call.op = "HasIgnoredBases" =>
        call.ret = (\E a \in Ancestors(call.graph, call.record) :
                        call.graph.qname[a] \in IgnoredBaseClasses)

\* Derived : <unresolved>, Middle; Middle : IPC::NoParams, with Derived
\* itself not matched by name.
C7_Witness ==
    /\ call.op = "HasIgnoredBases"
    /\ call.graph.bases[call.record] = <<NoRecord, 2>>
    /\ call.graph.bases[2] = <<3>>
    /\ call.graph.qname[2] = "other::NoParams"
    /\ call.graph.qname[3] = "IPC::NoParams"
    /\ call.ret = TRUE

-----------------------------------------------------------------------------
(* InImplementationFile.  A macro-expansion chain is a non-empty list of    *)
(* positions [valid, file]: the starting position first, each next element  *)
(* the start of the immediate expansion range of the one before, the last   *)
(* one the only position that is not a macro ID (the use site in a file).   *)

ChainFiles == {"a.h", "a.cc", "a.cpp", "a.mm", "cc", "a.cc.h"}

ChainPositions ==
    [valid : {TRUE}, file : ChainFiles] \cup [valid : {FALSE}, file : {""}]

Chains == UNION { [1..n -> ChainPositions] : n \in 1..MaxChain }

isMacroID(chain, i) == i < Len(chain)

\* The loop returning false at a position whose filename does not resolve.
RECURSIVE InImplementationFileAt_StopAtUnresolved(_, _)
InImplementationFileAt_StopAtUnresolved(chain, i) ==
    LET got == GetFilename(chain[i])
    IN  IF ~got.ok THEN FALSE
        ELSE IF \/ ends_with(got.filename, ".cc")
                \/ ends_with(got.filename, ".cpp")
                \/ ends_with(got.filename, ".mm")
        THEN TRUE
        ELSE IF ~isMacroID(chain, i) THEN FALSE
        ELSE InImplementationFileAt_StopAtUnresolved(chain, i + 1)

\* Lines 184-198: the loop, with record_location at element i of the chain.
RECURSIVE InImplementationFileAt(_, _)
InImplementationFileAt(chain, i) ==
    LET got == GetFilename(chain[i])
    IN  IF got.ok /\ (\/ ends_with(got.filename, ".cc")
                      \/ ends_with(got.filename, ".cpp")
                      \/ ends_with(got.filename, ".mm"))
        THEN TRUE
        ELSE IF ~isMacroID(chain, i) THEN FALSE
        ELSE InImplementationFileAt(chain, i + 1)

InImplementationFile(chain) == InImplementationFileAt(chain, 1)

InImplementationFileCall ==
    /\ Idle
    /\ \E chain \in Chains :
          call' = [op |-> "InImplementationFile", chain |-> chain,
                   ret |-> InImplementationFile(chain)]
    /\ UNCHANGED <<build, policy, assert_sites, replay>>

NextImpl == InImplementationFileCall \/ HostContinues

SpecImpl == Init /\ [][NextImpl]_vars

HasImplSuffix(file) ==
    \E suffix \in {".cc", ".cpp", ".mm"} :
        /\ Len(file) >= Len(suffix)
        /\ SubSeq(file, Len(file) - Len(suffix) + 1, Len(file)) = suffix

(* C8: InImplementationFile returns a result, which is true exactly when    *)
(* some position of the chain, from the starting position to the use site,  *)
(* has a resolvable filename ending in ".cc", ".cpp" or ".mm"; a position   *)
(* whose filename does not resolve does not stop the walk.                  *)
C8_ExpansionChain ==
    call.op = "InImplementationFile" =>
        call.ret = (\E i \in 1..Len(call.chain) :
                        call.chain[i].valid /\ HasImplSuffix(call.chain[i].file))

\* A header spelling, an unresolvable expansion, and a .mm use site.
C8_Witness ==
    /\ call.op = "InImplementationFile"
    /\ Len(call.chain) = 3
    /\ call.chain[1] = [valid |-> TRUE, file |-> "a.h"]
    /\ ~call.chain[2].valid
    /\ call.chain[3] = [valid |-> TRUE, file |-> "a.mm"]
    /\ call.ret = TRUE

-----------------------------------------------------------------------------
(* GetNamespace.  The declaration contexts enclosing a declaration, from    *)
(* record->getDeclContext() outwards; the translation unit, which ends      *)
(* every chain, is left implicit.  A context is [kind, name, anonymous].    *)

kAnonymousNamespace == "<anonymous namespace>"

DeclContexts ==
    { [kind |-> "Namespace", name |-> "base", anonymous |-> FALSE],
      [kind |-> "Namespace", name |-> "internal", anonymous |-> FALSE],
      [kind |-> "Namespace", name |-> "", anonymous |-> TRUE],
      [kind |-> "CXXRecord", name |-> "Outer", anonymous |-> FALSE],
      [kind |-> "Function", name |-> "f", anonymous |-> FALSE] }

ContextChains == UNION { [1..n -> DeclContexts] : n \in 0..MaxCtx }

\* GetNamespaceImpl building the qualified name instead of replacing the candidate.
RECURSIVE GetNamespaceImpl_Qualified(_, _)
GetNamespaceImpl_Qualified(context, candidate) ==
    IF context = <<>> THEN candidate
    ELSE IF Head(context).kind = "Namespace" THEN
        LET name_str == IF Head(context).anonymous THEN kAnonymousNamespace
                        ELSE Head(context).name
        IN  GetNamespaceImpl_Qualified(Tail(context),
                IF candidate = "" THEN name_str
                ELSE name_str \o "::" \o candidate)
    ELSE GetNamespaceImpl_Qualified(Tail(context), candidate)

\* Lines 262-283; getParent() is the rest of the chain.
RECURSIVE GetNamespaceImpl(_, _)
GetNamespaceImpl(context, candidate) ==
    IF context = <<>> THEN candidate
    ELSE IF Head(context).kind = "Namespace" THEN
        LET name_str == IF Head(context).anonymous THEN kAnonymousNamespace
                        ELSE Head(context).name
        IN  GetNamespaceImpl(Tail(context), name_str)
    ELSE GetNamespaceImpl(Tail(context), candidate)

GetNamespace(contexts) == GetNamespaceImpl(contexts, "")

GetNamespaceCall ==
    /\ Idle
    /\ \E contexts \in ContextChains :
          call' = [op |-> "GetNamespace", contexts |-> contexts,
                   ret |-> GetNamespace(contexts)]
    /\ UNCHANGED <<build, policy, assert_sites, replay>>

NextNamespace == GetNamespaceCall \/ HostContinues

SpecNamespace == Init /\ [][NextNamespace]_vars

(* C9: GetNamespace returns the display name of the outermost enclosing     *)
(* namespace ("<anonymous namespace>" when it is unnamed), the empty string *)
(* when no namespace encloses the declaration; it is never a concatenation  *)
(* of names, and class and function contexts do not change it.              *)
C9_OutermostNamespace ==
    call.op = "GetNamespace" =>
        LET at == { i \in 1..Len(call.contexts) :
                      call.contexts[i].kind = "Namespace" }
        IN  IF at = {} THEN call.ret = ""
            ELSE LET outer == call.contexts[CHOOSE i \in at : \A j \in at : j <= i]
                 IN  call.ret = IF outer.anonymous THEN "<anonymous namespace>"
                                ELSE outer.name

\* A class nested in a class in namespace internal in namespace base.
C9_Witness ==
    /\ call.op = "GetNamespace"
    /\ Len(call.contexts) = 3
    /\ call.contexts[1].kind = "CXXRecord"
    /\ call.contexts[2].name = "internal"
    /\ call.contexts[3].name = "base"
    /\ call.ret = "base"

-----------------------------------------------------------------------------
(* IsIgnoredType called on its own, as the subclass-supplied checks may.    *)

\* IsIgnoredType looking the name up with an inserting access, which leaves
\* the name in the set.
IsIgnoredTypeCall_Inserts ==
    /\ Idle
    /\ \E base_name \in TagNames :
          /\ call' = [op |-> "IsIgnoredType", base_name |-> base_name,
                      ret |-> IsIgnoredType(base_name)]
          /\ ignored_record_names_' = ignored_record_names_ \cup {base_name}
    /\ UNCHANGED <<build, banned_directories_, ignored_base_classes_, assert_sites, replay>>

IsIgnoredTypeCall ==
    /\ Idle
    /\ \E base_name \in TagNames :
          call' = [op |-> "IsIgnoredType", base_name |-> base_name,
                   ret |-> IsIgnoredType(base_name)]
    /\ UNCHANGED <<build, policy, assert_sites, replay>>

-----------------------------------------------------------------------------
(* The whole engine: any of its operations, one call at a time.             *)

Next ==
    \/ ClassifyLocationCall
    \/ CheckTagCall
    \/ HasIgnoredBasesCall
    \/ InImplementationFileCall
    \/ GetNamespaceCall
    \/ IsIgnoredTypeCall
    \/ HostContinues

Spec == Init /\ [][Next]_vars

-----------------------------------------------------------------------------
(* Claims about the whole engine, checked under Spec.                       *)

(* C11: no CheckTag, ClassifyLocation, GetNamespace, HasIgnoredBases,       *)
(* InImplementationFile or IsIgnoredType call changes the banned-directory  *)
(* set, the ignored-type-name set or the ignored-base-class set, and each   *)
(* stays the set built at construction.                                     *)
C11_PolicyNeverChanges ==
    /\ [][ /\ banned_directories_' = banned_directories_
           /\ ignored_record_names_' = ignored_record_names_
           /\ ignored_base_classes_' = ignored_base_classes_ ]_vars
    /\ [](/\ banned_directories_ = BannedDirectories
          /\ ignored_record_names_ = IgnoredRecordNames
          /\ ignored_base_classes_ = IgnoredBaseClasses)

\* An IsIgnoredType lookup of a name that is not in the set, made after a
\* ClassifyLocation call that went through the banned-directory loop.
C11_Witness ==
    /\ call.op = "IsIgnoredType"
    /\ call.base_name = "FooMatcher"
    /\ call.ret = FALSE
    /\ "ClassifyLocation" \in assert_sites
    /\ "FooMatcher" \notin ignored_record_names_
    /\ banned_directories_ = BannedDirectories

-----------------------------------------------------------------------------
(* The replay process.  A message is [id, type]; id is the message's place  *)
(* in the testcase file and stands for the pointer's identity.              *)

engine == <<build, policy, assert_sites, call>>

NULL == [id |-> 0, type |-> "NULL"]

MessageTypes == {"ViewHostMsg", "FrameHostMsg"}

\* The contents MessageFile::Read may store for a testcase file.
Testcases ==
    UNION { { [i \in 1..n |-> [id |-> i, type |-> t[i]]] : t \in [1..n -> MessageTypes] } :
              n \in 0..MaxMessages }

\* OpenTestcase: MessageFile::Read fills messages_, or fails.
OpenTestcase ==
    /\ pc = "constructed"
    /\ \/ \E read \in Testcases :
             /\ messages_' = read
             /\ testcase' = read
             /\ pc' = "opened"
       \/ /\ pc' = "failed"
          /\ UNCHANGED <<messages_, testcase>>
    /\ UNCHANGED <<message_index_, sent, quit_when_idle, handler, engine>>

\* Run: starts the repeating timer and enters the message loop.
Run ==
    /\ pc = "opened"
    /\ pc' = "running"
    /\ UNCHANGED <<message_index_, messages_, testcase, sent, quit_when_idle,
                   handler, engine>>

\* SendNextMessage without the increment of message_index_.
SendNextMessage_NoIncrement ==
    /\ pc = "running"
    /\ handler' = "SendNextMessage"
    /\ IF message_index_ >= Len(messages_)
       THEN /\ quit_when_idle' = TRUE
            /\ UNCHANGED <<message_index_, messages_, sent>>
       ELSE LET message == messages_[message_index_ + 1]
            IN  /\ messages_' = [messages_ EXCEPT ![message_index_ + 1] = NULL]
                /\ message_index_' = message_index_
                /\ Len(sent) <= MaxMessages
                /\ \E ok \in BOOLEAN :
                      /\ sent' = Append(sent, [message |-> message, ok |-> ok])
                      /\ quit_when_idle' = (quit_when_idle \/ ~ok)
    /\ UNCHANGED <<testcase, pc, engine>>

\* SendNextMessage, a tick of the timer (lines 134-149).  Element i of the
\* vector is messages_[i + 1] here.
SendNextMessage ==
    /\ pc = "running"
    /\ handler' = "SendNextMessage"
    /\ IF message_index_ >= Len(messages_)
       THEN /\ quit_when_idle' = TRUE
            /\ UNCHANGED <<message_index_, messages_, sent>>
       ELSE LET message == messages_[message_index_ + 1]
            IN  /\ messages_' = [messages_ EXCEPT ![message_index_ + 1] = NULL]
                /\ message_index_' = message_index_ + 1
                /\ \E ok \in BOOLEAN :
                      /\ sent' = Append(sent, [message |-> message, ok |-> ok])
                      /\ quit_when_idle' = (quit_when_idle \/ ~ok)
    /\ UNCHANGED <<testcase, pc, engine>>

\* OnChannelError, run by the message loop as the channel's listener.
OnChannelError ==
    /\ pc = "running"
    /\ handler' = "OnChannelError"
    /\ quit_when_idle' = TRUE
    /\ UNCHANGED <<message_index_, messages_, testcase, sent, pc, engine>>

\* MessageLoop::Run returns once a quit has been requested and the loop is idle.
RunReturns ==
    /\ pc = "running"
    /\ quit_when_idle
    /\ pc' = "done"
    /\ handler' = "none"
    /\ UNCHANGED <<message_index_, messages_, testcase, sent, quit_when_idle, engine>>

NextReplay ==
    \/ OpenTestcase
    \/ Run
    \/ SendNextMessage
    \/ OnChannelError
    \/ RunReturns

SpecReplay == Init /\ [][NextReplay]_vars

-----------------------------------------------------------------------------
(* Claims about the replay process, checked under SpecReplay.               *)

\* The messages handed to the channel, in the order of the Send calls.
Handed == [i \in 1..Len(sent) |-> sent[i].message]

\* A step in which the message loop runs SendNextMessage.
TickStep == pc = "running" /\ pc' = "running" /\ handler' = "SendNextMessage"

(* C12: across the ticks of the timer the messages of the testcase are      *)
(* handed to the channel in index order, each at most once, its slot being  *)
(* NULL from then on; message_index_ never exceeds messages_.size() and     *)
(* only grows, by one in exactly the steps that hand a message over; a tick *)
(* that finds message_index_ equal to messages_.size() sends nothing and    *)
(* requests the loop to quit, and so does a tick whose Send fails.          *)
C12_ReplayOrder ==
    /\ [](/\ message_index_ <= Len(messages_)
          /\ Len(messages_) = Len(testcase)
          /\ Len(sent) = message_index_
          /\ \A i \in 1..Len(sent) : sent[i].message = testcase[i]
          /\ \A i, j \in 1..Len(sent) : i # j => sent[i].message # sent[j].message
          /\ \A i \in 1..Len(messages_) :
                messages_[i] = IF i <= message_index_ THEN NULL ELSE testcase[i])
    /\ [][ /\ message_index_' \in {message_index_, message_index_ + 1}
           /\ (message_index_' = message_index_ + 1) <=> (Len(sent') = Len(sent) + 1)
           /\ (message_index_' = message_index_) => (sent' = sent)
           /\ (TickStep /\ message_index_ = Len(messages_))
                 => (sent' = sent /\ quit_when_idle')
           /\ (TickStep /\ message_index_ < Len(messages_))
                 => /\ message_index_' = message_index_ + 1
                    /\ sent'[Len(sent')].message = testcase[message_index_ + 1]
                    /\ ~sent'[Len(sent')].ok => quit_when_idle'
         ]_vars

\* The second of two messages was handed over and its Send failed, after the
\* first was sent.
C12_Witness ==
    /\ pc = "running"
    /\ handler = "SendNextMessage"
    /\ Len(testcase) = 2
    /\ message_index_ = 2
    /\ sent[1].ok
    /\ ~sent[2].ok
    /\ Handed = testcase
    /\ messages_ = <<NULL, NULL>>
    /\ quit_when_idle

=============================================================================
